---- MODULE Spec2Model ----
(***************************************************************************)
(* Sub-repository permissions: the decision procedure of                   *)
(* internal/authz/sub_repo_perms.go (ActorPermissions, Permissions), the   *)
(* process-wide feature flag written by the configuration watcher, and the *)
(* glob / path.Join semantics the rule evaluation relies on.               *)
(*                                                                         *)
(* Strings are sequences of one-character strings so that path.Join and    *)
(* glob matching are computed character by character.                      *)
(***************************************************************************)
EXTENDS Integers, Sequences, FiniteSets, TLC

VARIABLES
    subRepoPermsEnabledFlag,  \* the int32 written by conf.Watch, read atomically
    permissionsGetter,        \* subRepoPermsClient.permissionsGetter: "nil" or "store"
    pc,                       \* position of the call in flight
    entry,                    \* function the caller invoked
    a,                        \* the *actor.Actor given to ActorPermissions
    userID,                   \* the userID parameter of Permissions
    content,                  \* the RepoContent parameter
    supported,                \* what RepoSupported answered in this call
    srp,                      \* what GetByUser answered in this call
    calls,                    \* calls made so far by this call, in order
    flagReads,                \* values subRepoPermsEnabled() returned in this call
    flagsSeen,                \* history: flag values that held during this call
    result                    \* the (Perms, error) pair returned

vars == <<subRepoPermsEnabledFlag, permissionsGetter, pc, entry, a, userID,
          content, supported, srp, calls, flagReads, flagsSeen, result>>

(***************************************************************************)
(* Bounds and input domains                                                *)
(***************************************************************************)
\* longest PathIncludes / PathExcludes list the store answers with
MaxRules == 2

Str_r == <<"r">>
Str_empty == << >>
Str_secretFile == <<"s","e","c","r","e","t","/","f","i","l","e",".","t","x","t">>
Str_publicFile == <<"p","u","b","l","i","c","/","f","i","l","e",".","t","x","t">>

Pat_all == <<"*","*">>
Pat_secret == <<"s","e","c","r","e","t","/","*","*">>
Pat_rSecret == <<"r","/","s","e","c","r","e","t","/","*","*">>
Pat_rStar == <<"r","/","*">>
Pat_bad == <<"[">>

RepoNames == {Str_r}
Paths == {Str_secretFile, Str_publicFile, Str_empty}
Patterns == {Pat_all, Pat_secret, Pat_rSecret, Pat_rStar, Pat_bad}
UserIDs == {0, 1}

SeqsUpTo(S, n) == UNION {[1..k -> S] : k \in 0..n}

\* []string values a rule list can hold
RuleLists == SeqsUpTo(Patterns, MaxRules)

\* SubRepoPermissions values
RuleSets == [PathIncludes : RuleLists, PathExcludes : RuleLists]

\* map[api.RepoName]SubRepoPermissions values
RuleMaps == UNION {[D -> RuleSets] : D \in SUBSET RepoNames}

\* *actor.Actor values
Actors == [UID : UserIDs, Internal : BOOLEAN]

RepoContents == [Repo : RepoNames, Path : Paths]

(***************************************************************************)
(* path.Join (Go standard library): the non-empty elements joined by "/",  *)
(* then path.Clean                                                         *)
(***************************************************************************)
RECURSIVE SplitFrom(_, _, _)
\* the "/"-separated segments of s from position i on, cur being the segment under way
SplitFrom(s, i, cur) ==
    IF i > Len(s) THEN <<cur>>
    ELSE IF s[i] = "/" THEN <<cur>> \o SplitFrom(s, i + 1, << >>)
    ELSE SplitFrom(s, i + 1, Append(cur, s[i]))

Split(s) == SplitFrom(s, 1, << >>)

RECURSIVE CleanSegs(_, _, _, _)
\* path.Clean on segments: drops "" and ".", resolves ".." against what precedes
CleanSegs(segs, i, out, rooted) ==
    IF i > Len(segs) THEN out
    ELSE IF segs[i] = << >> \/ segs[i] = <<".">> THEN CleanSegs(segs, i + 1, out, rooted)
    ELSE IF segs[i] = <<".", ".">> THEN
        IF Len(out) > 0 /\ out[Len(out)] # <<".", ".">>
            THEN CleanSegs(segs, i + 1, SubSeq(out, 1, Len(out) - 1), rooted)
        ELSE IF rooted THEN CleanSegs(segs, i + 1, out, rooted)
        ELSE CleanSegs(segs, i + 1, Append(out, segs[i]), rooted)
    ELSE CleanSegs(segs, i + 1, Append(out, segs[i]), rooted)

RECURSIVE JoinSegs(_, _)
JoinSegs(segs, i) ==
    IF i > Len(segs) THEN << >>
    ELSE IF i = Len(segs) THEN segs[i]
    ELSE segs[i] \o <<"/">> \o JoinSegs(segs, i + 1)

pathClean(p) ==
    IF p = << >> THEN <<".">>
    ELSE LET rooted == p[1] = "/"
             body == JoinSegs(CleanSegs(Split(p), 1, << >>, rooted), 1)
             out == IF rooted THEN <<"/">> \o body ELSE body
         IN IF out = << >> THEN <<".">> ELSE out

pathJoin(e1, e2) ==
    IF Len(e1) + Len(e2) = 0 THEN << >>
    ELSE IF e1 = << >> THEN pathClean(e2)
    ELSE pathClean(e1 \o <<"/">> \o e2)

(***************************************************************************)
(* glob.Compile(rule, '/') and Glob.Match (github.com/gobwas/glob).        *)
(* The modelled pattern alphabet is literals, "/", "?", "*", "**" and an   *)
(* opening "[" ; it has no "]", "{", "}" or "\", so every character class  *)
(* is unterminated, which the lexer rejects ("unexpected end of input").   *)
(***************************************************************************)
globCompileOK(rule) ==
    \A i \in 1..Len(rule) :
        rule[i] = "[" => \E j \in (i + 1)..Len(rule) : rule[j] = "]"

RECURSIVE globMatchFrom(_, _, _, _)
\* does rule from position i on match s from position j on, whole-string
globMatchFrom(rule, i, s, j) ==
    IF i > Len(rule) THEN j > Len(s)
    ELSE IF rule[i] = "*" /\ i < Len(rule) /\ rule[i + 1] = "*" THEN
        \* super wildcard: any run of characters, separators included
        \E k \in j..(Len(s) + 1) : globMatchFrom(rule, i + 2, s, k)
    ELSE IF rule[i] = "*" THEN
        \* any run of non-separator characters
        \E k \in j..(Len(s) + 1) :
            /\ \A m \in j..(k - 1) : s[m] # "/"
            /\ globMatchFrom(rule, i + 1, s, k)
    ELSE IF rule[i] = "?" THEN
        j <= Len(s) /\ s[j] # "/" /\ globMatchFrom(rule, i + 1, s, j + 1)
    ELSE j <= Len(s) /\ s[j] = rule[i] /\ globMatchFrom(rule, i + 1, s, j + 1)

globMatch(rule, s) == globMatchFrom(rule, 1, s, 1)

(***************************************************************************)
(* Values returned by the two functions                                    *)
(***************************************************************************)
Ret(p, e) == [perms |-> p, err |-> e]

\* no value returned yet
NoResult == [perms |-> "unset", err |-> "unset"]

\* the function goes on to its next statement instead of returning
Proceed == [perms |-> "proceed", err |-> "proceed"]

NoActor == [UID |-> -1, Internal |-> FALSE]
NoContent == [Repo |-> << >>, Path |-> << >>]
NoRules == [state |-> "unset", m |-> << >>]

\* answers of RepoSupported: (true, nil), (false, nil), (_, err)
RepoSupportedAnswers == {"true", "false", "err"}

\* answers of GetByUser: (nil, err) or (map, nil)
GetByUserAnswers ==
    {[state |-> "err", m |-> << >>]} \cup {[state |-> "ok", m |-> m] : m \in RuleMaps}

(***************************************************************************)
(* The feature flag                                                        *)
(***************************************************************************)
subRepoPermsEnabled == subRepoPermsEnabledFlag = 1

(***************************************************************************)
(* actor.Actor predicates (internal/actor): an actor is authenticated when *)
(* it carries a user id other than 0                                       *)
(***************************************************************************)
IsAuthenticated(actor) == actor.UID # 0

IsInternal(actor) == actor.Internal

(***************************************************************************)
(* Permissions, lines 118-162: the rule evaluation                         *)
(***************************************************************************)
\* a slip: an invalid pattern is skipped instead of failing the call
compileRules_SkipInvalid(repoRules) == "nil"

\* the error of the two compile loops, "nil" when every pattern compiles
compileRules(repoRules) ==
    IF \E i \in DOMAIN repoRules.PathIncludes : ~globCompileOK(repoRules.PathIncludes[i])
        THEN "building include matcher"
    ELSE IF \E i \in DOMAIN repoRules.PathExcludes : ~globCompileOK(repoRules.PathExcludes[i])
        THEN "building exclude matcher"
    ELSE "nil"

anyMatch(rules, toMatch) ==
    \E i \in DOMAIN rules : globMatch(rules[i], toMatch)

\* a slip: the include loop placed before the exclude loop
matchRules_IncludeFirst(repoRules, toMatch) ==
    IF anyMatch(repoRules.PathIncludes, toMatch) THEN Ret("Read", "nil")
    ELSE Ret("None", "nil")

\* a slip: the final return grants access
matchRules_DefaultRead(repoRules, toMatch) ==
    IF anyMatch(repoRules.PathExcludes, toMatch) THEN Ret("None", "nil")
    ELSE Ret("Read", "nil")

\* the exclude loop, the include loop and the final return
matchRules(repoRules, toMatch) ==
    IF anyMatch(repoRules.PathExcludes, toMatch) THEN Ret("None", "nil")
    ELSE IF anyMatch(repoRules.PathIncludes, toMatch) THEN Ret("Read", "nil")
    ELSE Ret("None", "nil")

\* a slip: a repo without synced rules is readable
repoAbsent_Read == Ret("Read", "nil")

repoAbsent == Ret("None", "nil")

\* a slip: the match subject left without the repo name
evalRules_PathOnly(m, c) ==
    IF c.Repo \notin DOMAIN m THEN repoAbsent
    ELSE LET repoRules == m[c.Repo]
             compileErr == compileRules(repoRules)
         IN IF compileErr # "nil" THEN Ret("None", compileErr)
            ELSE matchRules(repoRules, pathClean(c.Path))

\* the lookup of the repo's rules, the compile loops, the match subject, the match loops
evalRules(m, c) ==
    IF c.Repo \notin DOMAIN m THEN repoAbsent
    ELSE LET repoRules == m[c.Repo]
             compileErr == compileRules(repoRules)
         IN IF compileErr # "nil" THEN Ret("None", compileErr)
            ELSE matchRules(repoRules, pathJoin(c.Repo, c.Path))

\* Permissions from the GetByUser call on
getByUserOutcome(answer, c) ==
    IF answer.state = "err" THEN Ret("None", "getting permissions")
    ELSE evalRules(answer.m, c)

\* a slip: an unsupported repo falls through to the rule lookup
repoSupportedOutcome_FallThrough(answer) ==
    IF answer = "err" THEN Ret("None", "checking for sub-repo permissions support")
    ELSE Proceed

\* Permissions at the RepoSupported call
repoSupportedOutcome(answer) ==
    IF answer = "err" THEN Ret("None", "checking for sub-repo permissions support")
    ELSE IF answer = "false" THEN Ret("Read", "nil")
    ELSE Proceed

\* a slip: the disabled flag denies
permissionsDisabled_None == Ret("None", "nil")

permissionsDisabled == Ret("Read", "nil")

\* a slip: the getter is checked before the user id
permissionsPrecheck_GetterFirst(enabled, uid, getter) ==
    IF ~enabled THEN Ret("Read", "nil")
    ELSE IF getter = "nil" THEN Ret("None", "PermissionsGetter is nil")
    ELSE IF uid = 0 THEN Ret("None", "ErrUnauthenticated")
    ELSE Proceed

\* Permissions up to the first collaborator call
permissionsPrecheck(enabled, uid, getter) ==
    IF ~enabled THEN permissionsDisabled
    ELSE IF uid = 0 THEN Ret("None", "ErrUnauthenticated")
    ELSE IF getter = "nil" THEN Ret("None", "PermissionsGetter is nil")
    ELSE Proceed

\* a slip: the disabled flag is not honoured by the gate
actorGate_IgnoreFlag(enabled, actor) ==
    IF ~IsAuthenticated(actor) THEN Ret("None", "ErrUnauthenticated")
    ELSE IF IsInternal(actor) THEN Ret("Read", "nil")
    ELSE Proceed

\* ActorPermissions up to the call of s.Permissions
actorGate(enabled, actor) ==
    IF ~enabled THEN Ret("Read", "nil")
    ELSE IF ~IsAuthenticated(actor) THEN Ret("None", "ErrUnauthenticated")
    ELSE IF IsInternal(actor) THEN Ret("Read", "nil")
    ELSE Proceed

(***************************************************************************)
(* The state machine                                                       *)
(***************************************************************************)
Init ==
    /\ subRepoPermsEnabledFlag = 0
    /\ permissionsGetter \in {"nil", "store"}
    /\ pc = "idle"
    /\ entry = "none"
    /\ a = NoActor
    /\ userID = -1
    /\ content = NoContent
    /\ supported = "unset"
    /\ srp = NoRules
    /\ calls = << >>
    /\ flagReads = << >>
    /\ flagsSeen = {}
    /\ result = NoResult

\* the conf.Watch callback stores the configured value
ConfWatch(enable) ==
    /\ subRepoPermsEnabledFlag' = IF enable THEN 1 ELSE 0
    /\ flagsSeen' = IF pc \in {"idle", "done"} THEN flagsSeen
                    ELSE flagsSeen \cup {subRepoPermsEnabledFlag'}
    /\ UNCHANGED <<permissionsGetter, pc, entry, a, userID, content, supported,
                   srp, calls, flagReads, result>>

\* a caller invokes ActorPermissions(ctx, s, actor, c)
CallActorPermissions(actor, c) ==
    /\ pc = "idle"
    /\ pc' = "ActorPermissions"
    /\ entry' = "ActorPermissions"
    /\ a' = actor
    /\ content' = c
    /\ flagsSeen' = {subRepoPermsEnabledFlag}
    /\ UNCHANGED <<subRepoPermsEnabledFlag, permissionsGetter, userID, supported,
                   srp, calls, flagReads, result>>

\* a caller invokes s.Permissions(ctx, uid, c) directly
CallPermissions(uid, c) ==
    /\ pc = "idle"
    /\ pc' = "Permissions"
    /\ entry' = "Permissions"
    /\ userID' = uid
    /\ content' = c
    /\ flagsSeen' = {subRepoPermsEnabledFlag}
    /\ UNCHANGED <<subRepoPermsEnabledFlag, permissionsGetter, a, supported,
                   srp, calls, flagReads, result>>

\* ActorPermissions: flag load, actor checks, then return or delegate
ActorPermissions ==
    /\ pc = "ActorPermissions"
    /\ LET enabled == subRepoPermsEnabled
           out == actorGate(enabled, a)
       IN /\ flagReads' = Append(flagReads, enabled)
          /\ IF out = Proceed
                THEN /\ pc' = "Permissions"
                     /\ userID' = a.UID
                     /\ calls' = Append(calls, "Permissions")
                     /\ UNCHANGED result
                ELSE /\ pc' = "done"
                     /\ result' = out
                     /\ UNCHANGED <<userID, calls>>
    /\ UNCHANGED <<subRepoPermsEnabledFlag, permissionsGetter, entry, a, content,
                   supported, srp, flagsSeen>>

\* Permissions: flag load, userID and getter checks
Permissions ==
    /\ pc = "Permissions"
    /\ LET enabled == subRepoPermsEnabled
           out == permissionsPrecheck(enabled, userID, permissionsGetter)
       IN /\ flagReads' = Append(flagReads, enabled)
          /\ IF out = Proceed
                THEN pc' = "RepoSupported" /\ UNCHANGED result
                ELSE pc' = "done" /\ result' = out
    /\ UNCHANGED <<subRepoPermsEnabledFlag, permissionsGetter, entry, a, userID,
                   content, supported, srp, calls, flagsSeen>>

\* Permissions: the RepoSupported call and what follows from its answer
RepoSupported ==
    /\ pc = "RepoSupported"
    /\ \E answer \in RepoSupportedAnswers :
        LET out == repoSupportedOutcome(answer)
        IN /\ supported' = answer
           /\ calls' = Append(calls, "RepoSupported")
           /\ IF out = Proceed
                 THEN pc' = "GetByUser" /\ UNCHANGED result
                 ELSE pc' = "done" /\ result' = out
    /\ UNCHANGED <<subRepoPermsEnabledFlag, permissionsGetter, entry, a, userID,
                   content, srp, flagReads, flagsSeen>>

\* Permissions: the GetByUser call, then the rule evaluation to the return
GetByUser ==
    /\ pc = "GetByUser"
    /\ \E answer \in GetByUserAnswers :
        /\ srp' = answer
        /\ calls' = Append(calls, "GetByUser")
        /\ result' = getByUserOutcome(answer, content)
        /\ pc' = "done"
    /\ UNCHANGED <<subRepoPermsEnabledFlag, permissionsGetter, entry, a, userID,
                   content, supported, flagReads, flagsSeen>>

\* the caller takes the result; the next call starts afresh
Return ==
    /\ pc = "done"
    /\ pc' = "idle"
    /\ entry' = "none"
    /\ a' = NoActor
    /\ userID' = -1
    /\ content' = NoContent
    /\ supported' = "unset"
    /\ srp' = NoRules
    /\ calls' = << >>
    /\ flagReads' = << >>
    /\ flagsSeen' = {}
    /\ result' = NoResult
    /\ UNCHANGED <<subRepoPermsEnabledFlag, permissionsGetter>>

Next ==
    \/ \E enable \in BOOLEAN : ConfWatch(enable)
    \/ \E actor \in Actors, c \in RepoContents : CallActorPermissions(actor, c)
    \/ \E uid \in UserIDs, c \in RepoContents : CallPermissions(uid, c)
    \/ ActorPermissions
    \/ Permissions
    \/ RepoSupported
    \/ GetByUser
    \/ Return

Spec == Init /\ [][Next]_vars

(***************************************************************************)
(* Vocabulary of the properties                                            *)
(***************************************************************************)
Done == pc = "done"

Called(f) == \E i \in DOMAIN calls : calls[i] = f

NoStoreCall == ~Called("RepoSupported") /\ ~Called("GetByUser")

\* some subRepoPermsEnabled() of this call returned false
ReadDisabled == \E i \in DOMAIN flagReads : ~flagReads[i]

\* every subRepoPermsEnabled() of this call returned true, and there was one
ReadEnabled == flagReads # << >> /\ \A i \in DOMAIN flagReads : flagReads[i]

\* GetByUser answered with a map that holds rules for the repo asked about
RulesFetched == srp.state = "ok" /\ content.Repo \in DOMAIN srp.m

repoRulesOf == srp.m[content.Repo]

toMatch == pathJoin(content.Repo, content.Path)

AllCompile(rules) == \A i \in DOMAIN rules : globCompileOK(rules[i])

SomeMatch(rules) == \E i \in DOMAIN rules : globMatch(rules[i], toMatch)

RulesValid == AllCompile(repoRulesOf.PathIncludes) /\ AllCompile(repoRulesOf.PathExcludes)

(***************************************************************************)
(* C1: whenever a flag load of the call returns disabled, the call ends at *)
(* that load with (Read, nil) and has called neither RepoSupported nor     *)
(* GetByUser, for every actor, user id, repo and path, with or without a   *)
(* configured getter.                                                      *)
(***************************************************************************)
C1_DisabledFlagReads ==
    ReadDisabled =>
        /\ Done
        /\ result = Ret("Read", "nil")
        /\ NoStoreCall

C1_Witness ==
    /\ Done /\ ReadDisabled
    /\ entry = "Permissions" /\ userID = 0 /\ permissionsGetter = "nil"
    /\ result = Ret("Read", "nil")

(***************************************************************************)
(* C2: with the flag enabled, ActorPermissions returns (Read, nil) for     *)
(* every internal actor, whatever its user id and authentication status,   *)
(* without calling Permissions, RepoSupported or GetByUser.                *)
(***************************************************************************)
C2_InternalActorReads ==
    (Done /\ entry = "ActorPermissions" /\ ReadEnabled /\ IsInternal(a)) =>
        /\ result = Ret("Read", "nil")
        /\ calls = << >>

(***************************************************************************)
(* C3: with the flag enabled, ActorPermissions on an unauthenticated actor *)
(* and Permissions with userID 0 return (None, ErrUnauthenticated) with    *)
(* neither RepoSupported nor GetByUser called, whether or not the getter   *)
(* is configured.                                                          *)
(***************************************************************************)
C3_UnauthenticatedRejected ==
    (/\ Done /\ ReadEnabled
     /\ \/ entry = "ActorPermissions" /\ ~IsAuthenticated(a)
        \/ entry = "Permissions" /\ userID = 0) =>
        /\ result = Ret("None", "ErrUnauthenticated")
        /\ NoStoreCall

C3_Witness ==
    /\ Done /\ ReadEnabled
    /\ entry = "Permissions" /\ userID = 0 /\ permissionsGetter = "nil"
    /\ result = Ret("None", "ErrUnauthenticated")

(***************************************************************************)
(* C4: when RepoSupported answers (false, nil) the call returns            *)
(* (Read, nil) and GetByUser is never called, so no rule the store holds   *)
(* takes part in the outcome.                                              *)
(***************************************************************************)
C4_UnsupportedRepoReads ==
    (Done /\ supported = "false") =>
        /\ result = Ret("Read", "nil")
        /\ ~Called("GetByUser")
        /\ srp = NoRules
        /\ userID # 0 /\ permissionsGetter = "store" /\ ReadEnabled

C4_Witness ==
    /\ Done /\ supported = "false" /\ Called("RepoSupported")
    /\ result = Ret("Read", "nil")

(***************************************************************************)
(* C5: exclude wins over include: with valid patterns, if any exclude      *)
(* pattern matches the match subject the call returns (None, nil), whether *)
(* or not an include pattern matches too and wherever the patterns stand   *)
(* in their lists.                                                         *)
(***************************************************************************)
C5_ExcludeWins ==
    (/\ Done /\ RulesFetched /\ RulesValid
     /\ SomeMatch(repoRulesOf.PathExcludes)) =>
        result = Ret("None", "nil")

C5_Witness ==
    /\ Done /\ RulesFetched /\ RulesValid
    /\ Len(repoRulesOf.PathExcludes) = 2
    /\ ~globMatch(repoRulesOf.PathExcludes[1], toMatch)
    /\ globMatch(repoRulesOf.PathExcludes[2], toMatch)
    /\ SomeMatch(repoRulesOf.PathIncludes)
    /\ result = Ret("None", "nil")

(***************************************************************************)
(* C6 as stated: repo "r", includes = ["**"], excludes = ["secret/**"]:    *)
(* path "secret/file.txt" gives None and path "public/file.txt" gives Read.*)
(***************************************************************************)
C6_ExampleAsStated ==
    (/\ Done /\ RulesFetched /\ content.Repo = Str_r
     /\ repoRulesOf = [PathIncludes |-> <<Pat_all>>, PathExcludes |-> <<Pat_secret>>]) =>
        /\ content.Path = Str_secretFile => result.perms = "None"
        /\ content.Path = Str_publicFile => result.perms = "Read"

(***************************************************************************)
(* C6 amended: the match subject is the repo name joined with the path, so *)
(* the exclude rule has to carry the repo name: with includes = ["**"] and *)
(* excludes = ["r/secret/**"], "secret/file.txt" gives (None, nil) and     *)
(* "public/file.txt" gives (Read, nil); with excludes = ["secret/**"] the  *)
(* exclude rule matches neither subject and both paths give (Read, nil).   *)
(***************************************************************************)
C6_ExampleWithRepoPrefix ==
    (Done /\ RulesFetched /\ content.Repo = Str_r) =>
        /\ repoRulesOf = [PathIncludes |-> <<Pat_all>>, PathExcludes |-> <<Pat_rSecret>>] =>
            /\ content.Path = Str_secretFile => result = Ret("None", "nil")
            /\ content.Path = Str_publicFile => result = Ret("Read", "nil")
        /\ repoRulesOf = [PathIncludes |-> <<Pat_all>>, PathExcludes |-> <<Pat_secret>>] =>
            /\ content.Path = Str_secretFile => result = Ret("Read", "nil")
            /\ content.Path = Str_publicFile => result = Ret("Read", "nil")

C6_Witness ==
    /\ Done /\ RulesFetched /\ content.Repo = Str_r
    /\ repoRulesOf = [PathIncludes |-> <<Pat_all>>, PathExcludes |-> <<Pat_rSecret>>]
    /\ content.Path = Str_secretFile
    /\ result = Ret("None", "nil")

(***************************************************************************)
(* C7: fail-closed default: once GetByUser has answered, the call returns  *)
(* (None, nil) when the repo is absent from the map, and when the repo is  *)
(* present with valid patterns of which none, include or exclude, matches  *)
(* the match subject (both lists empty included).                          *)
(***************************************************************************)
C7_FailClosedDefault ==
    (/\ Done /\ srp.state = "ok"
     /\ \/ content.Repo \notin DOMAIN srp.m
        \/ /\ RulesFetched /\ RulesValid
           /\ ~SomeMatch(repoRulesOf.PathIncludes)
           /\ ~SomeMatch(repoRulesOf.PathExcludes)) =>
        result = Ret("None", "nil")

C7_Witness ==
    /\ Done /\ RulesFetched /\ RulesValid
    /\ repoRulesOf.PathIncludes # << >>
    /\ ~SomeMatch(repoRulesOf.PathIncludes)
    /\ ~SomeMatch(repoRulesOf.PathExcludes)
    /\ result = Ret("None", "nil")

(***************************************************************************)
(* C8: if any include or exclude pattern of the repo's rules fails to      *)
(* compile, the call returns None with a compile error, whatever the valid *)
(* patterns of the same rule set match.                                    *)
(***************************************************************************)
C8_InvalidPatternFails ==
    (Done /\ RulesFetched /\ ~RulesValid) =>
        /\ result.perms = "None"
        /\ result.err \in {"building include matcher", "building exclude matcher"}

C8_Witness ==
    /\ Done /\ RulesFetched /\ ~RulesValid
    /\ \E i \in DOMAIN repoRulesOf.PathIncludes :
        /\ globCompileOK(repoRulesOf.PathIncludes[i])
        /\ globMatch(repoRulesOf.PathIncludes[i], toMatch)
    /\ ~AllCompile(repoRulesOf.PathExcludes)
    /\ result = Ret("None", "building exclude matcher")

(***************************************************************************)
(* C9: a call that returns Read returns no error and did so because the    *)
(* flag was read as disabled, or the actor is internal, or RepoSupported   *)
(* answered false, or the rules fetched in this call have a matching       *)
(* include and no matching exclude; every other outcome is None, and every *)
(* error comes with None.                                                  *)
(***************************************************************************)
C9_ReadOnlyByGrant ==
    Done =>
        /\ result.perms \in {"None", "Read"}
        /\ result.err # "nil" => result.perms = "None"
        /\ result.perms = "Read" =>
            \/ ReadDisabled
            \/ entry = "ActorPermissions" /\ IsInternal(a) /\ calls = << >>
            \/ supported = "false"
            \/ /\ RulesFetched /\ RulesValid
               /\ SomeMatch(repoRulesOf.PathIncludes)
               /\ ~SomeMatch(repoRulesOf.PathExcludes)

C9_Witness ==
    /\ Done /\ result = Ret("Read", "nil")
    /\ ReadEnabled /\ supported = "true"
    /\ RulesFetched
    /\ SomeMatch(repoRulesOf.PathIncludes)
    /\ repoRulesOf.PathExcludes # << >>

(***************************************************************************)
(* C10: the two flag loads of one call may see different values; the       *)
(* result is still the one the procedure gives when run with a single flag *)
(* value that held at some moment of the call, and a caller without a real *)
(* identity gets Read only if the flag was disabled at some moment of the  *)
(* call.                                                                   *)
(***************************************************************************)
\* Permissions run with one flag value, on the answers the collaborators gave
AtomicPermissions(flagValue, uid) ==
    IF flagValue # 1 THEN Ret("Read", "nil")
    ELSE IF uid = 0 THEN Ret("None", "ErrUnauthenticated")
    ELSE IF permissionsGetter = "nil" THEN Ret("None", "PermissionsGetter is nil")
    ELSE IF supported = "unset" THEN NoResult
    ELSE IF supported = "err" THEN Ret("None", "checking for sub-repo permissions support")
    ELSE IF supported = "false" THEN Ret("Read", "nil")
    ELSE IF srp.state = "unset" THEN NoResult
    ELSE IF srp.state = "err" THEN Ret("None", "getting permissions")
    ELSE IF content.Repo \notin DOMAIN srp.m THEN Ret("None", "nil")
    ELSE IF ~AllCompile(repoRulesOf.PathIncludes) THEN Ret("None", "building include matcher")
    ELSE IF ~AllCompile(repoRulesOf.PathExcludes) THEN Ret("None", "building exclude matcher")
    ELSE IF SomeMatch(repoRulesOf.PathExcludes) THEN Ret("None", "nil")
    ELSE IF SomeMatch(repoRulesOf.PathIncludes) THEN Ret("Read", "nil")
    ELSE Ret("None", "nil")

\* ActorPermissions run with one flag value
AtomicActorPermissions(flagValue) ==
    IF flagValue # 1 THEN Ret("Read", "nil")
    ELSE IF ~IsAuthenticated(a) THEN Ret("None", "ErrUnauthenticated")
    ELSE IF IsInternal(a) THEN Ret("Read", "nil")
    ELSE AtomicPermissions(flagValue, a.UID)

C10_LinearizableFlag ==
    Done =>
        /\ entry = "ActorPermissions" =>
            \E v \in flagsSeen : result = AtomicActorPermissions(v)
        /\ entry = "Permissions" =>
            \E v \in flagsSeen : result = AtomicPermissions(v, userID)
        /\ (/\ result.perms = "Read"
            /\ \/ entry = "ActorPermissions" /\ ~IsAuthenticated(a)
               \/ entry = "Permissions" /\ userID = 0) => 0 \in flagsSeen

\* the watcher disabled the flag between the two loads of one call
C10_Witness ==
    /\ Done /\ entry = "ActorPermissions"
    /\ flagReads = <<TRUE, FALSE>>
    /\ flagsSeen = {0, 1}
    /\ result = Ret("Read", "nil")

====
